---- MODULE Spec2Model ----
(***************************************************************************)
(* The "analyze-news" fact-checking endpoint of TruthGuard.                *)
(*                                                                         *)
(* The repository holds three variants of the same serve handler:          *)
(*   "decision_search"  src/src/pages/TechnologyImpact.tsx lines 41-338    *)
(*                      (decision call, SerpAPI search, analysis call)     *)
(*   "tool_calling"     src/src/pages/TechnologyImpact.tsx lines 340-660   *)
(*                      (callGeminiWithSearch / performWebSearch)          *)
(*   "grounded"         src/unnamed/part_002                               *)
(*                      (decision call, grounded call, fallbackAnalysis)   *)
(*                                                                         *)
(* One behaviour of the model is one request served by one of the three    *)
(* handlers.  The handler is single-threaded and awaits every outbound     *)
(* call, so an action is "the awaited call returns and the handler runs    *)
(* on to its next outbound call or to its response".                       *)
(*                                                                         *)
(* Encodings.                                                              *)
(*   JavaScript values are records [t, s, n, frac, items]: t is the type   *)
(*   tag, s the string, n + frac/10 the number (frac \in 0..9, so -0.4 is  *)
(*   n = -1, frac = 6), items the array elements.                          *)
(*   The request text is a sequence of characters (so that trim() is       *)
(*   computed), model output is a sequence of tokens (so that the fence    *)
(*   regular expressions are computed).                                    *)
(***************************************************************************)
EXTENDS Integers, Sequences, FiniteSets, TLC

VARIABLES
    handler,          \* which of the three serve handlers runs the request
    env,              \* Deno.env: which credentials are configured
    req,              \* the inbound request: method and JSON body
    pc,               \* the handler's position: the call it awaits, or "done"
    calls,            \* outbound calls issued so far, in order
    replies,          \* the answers to the language-model calls of the pipeline, in
                      \* order: HTTP status (0: the fetch or res.json() rejected)
                      \* and whether the body held content
    needsLiveSearch,  \* decisionRaw.includes("LIVE_SEARCH_REQUIRED")
    searchQueries,    \* callGeminiWithSearch: the queries to search
    queryIndex,       \* callGeminiWithSearch: queries searched so far
    allSources,       \* callGeminiWithSearch: merged evidence records
    allSnippets,      \* callGeminiWithSearch: rendered evidence lines
    seen,             \* callGeminiWithSearch: every result performWebSearch
                      \* returned, in the order of the queries
    webSnippets,      \* runLiveSearch snippets kept by the handler
    sources,          \* evidence sources kept by the handler
    sourceMode,       \* "static" | "live-web" | "grounded" | "" (no such local)
    analysisUser,     \* the user prompt of the verdict call
    content,          \* content of the verdict call's reply
    analysis,         \* the parsed (or default) candidate
    response          \* the HTTP response, status 0 while none was sent

vars == << handler, env, req, pc, calls, replies, needsLiveSearch, searchQueries,
           queryIndex, allSources, allSnippets, seen, webSnippets, sources, sourceMode,
           analysisUser, content, analysis, response >>

---------------------------------------------------------------------------
(* Bounds of the model                                                     *)

\* tool calls the model may return from the first call of callGeminiWithSearch
MaxToolCalls == 4
\* results a search backend may return for one query (the code keeps 5)
MaxOrganic == 6

(* Program constants                                                       *)

\* searchQueries.slice(0, 3)
MaxExecutedQueries == 3
\* allSources.slice(0, 8), allSnippets.slice(0, 8)
EvidenceCap == 8
\* organic.slice(0, 5), sources.slice(0, 5), parsed.slice(0, 5)
TopResults == 5
\* userInput.slice(0, 200)
QueryPrefix == 200

---------------------------------------------------------------------------
(* JavaScript values                                                       *)

JSValue(t, s, n, frac, items) ==
    [t |-> t, s |-> s, n |-> n, frac |-> frac, items |-> items]

Undefined == JSValue("undefined", "", 0, 0, << >>)
Null      == JSValue("null", "", 0, 0, << >>)
Str(s)    == JSValue("string", s, 0, 0, << >>)
Num(n, frac) == JSValue("number", "", n, frac, << >>)
Arr(items) == JSValue("array", "", 0, 0, items)
Obj       == JSValue("object", "", 0, 0, << >>)

\* a < b on numbers n + frac/10
Less(a, b) == a.n < b.n \/ (a.n = b.n /\ a.frac < b.frac)
MathMax(a, b) == IF Less(a, b) THEN b ELSE a
MathMin(a, b) == IF Less(b, a) THEN b ELSE a
\* Math.round: nearest integer, ties toward +Infinity
MathRound(x) == Num(x.n + (IF x.frac >= 5 THEN 1 ELSE 0), 0)

Take(seq, k) == SubSeq(seq, 1, IF Len(seq) < k THEN Len(seq) ELSE k)

---------------------------------------------------------------------------
(* The request                                                             *)

\* a string given by its characters, for the request text
Text(chars) == JSValue("string", "", 0, 0, chars)

\* !v
Falsy(v) ==
    \/ v.t \in {"undefined", "null"}
    \/ v.t = "number" /\ v.n = 0 /\ v.frac = 0
    \/ v.t = "boolean" /\ v.n = 0
    \/ v.t = "string" /\ v.s = "" /\ v.items = << >>

IsSpace(ch) == ch = " "

RECURSIVE TrimStart(_)
TrimStart(chars) ==
    IF chars # << >> /\ IsSpace(Head(chars)) THEN TrimStart(Tail(chars)) ELSE chars

RECURSIVE TrimEnd(_)
TrimEnd(chars) ==
    IF chars # << >> /\ IsSpace(chars[Len(chars)])
    THEN TrimEnd(SubSeq(chars, 1, Len(chars) - 1))
    ELSE chars

\* String.prototype.trim
Trim(chars) == TrimEnd(TrimStart(chars))

\* the values text takes in the requests of the model
TextInputs ==
    { Undefined, Null, Num(0, 0), Num(7, 0), Obj,
      Text(<< >>), Text(<< " " >>), Text(<< " ", " " >>),
      Text(<< "a" >>), Text(<< " ", "a", " " >>) }

\* req.json(): "invalid" is a body that is no JSON (req.json() rejects),
\* "null" the JSON null (the destructuring throws), "object" a JSON object
Requests ==
    {[method |-> "OPTIONS", json |-> "invalid", text |-> Undefined]}
    \cup {[method |-> "POST", json |-> j, text |-> Undefined] : j \in {"invalid", "null"}}
    \cup {[method |-> "POST", json |-> "object", text |-> t] : t \in TextInputs}

\* a validation that forgets to trim
InvalidTextUntrimmed(text) == Falsy(text) \/ text.t # "string"

\* !text || typeof text !== "string" || text.trim().length === 0
InvalidText(text) ==
    \/ Falsy(text)
    \/ text.t # "string"
    \/ Len(Trim(text.items)) = 0

\* const userInput = text.trim()
userInput == Trim(req.text.items)

---------------------------------------------------------------------------
(* Responses                                                               *)

NoResponse ==
    [status |-> 0, keys |-> {}, error |-> "", verdict |-> "", confidence |-> Undefined,
     explanation |-> "", redFlags |-> << >>, sourceMode |-> "", sources |-> << >>]

\* new Response(null, { headers: corsHeaders })
Preflight == [NoResponse EXCEPT !.status = 200]

\* new Response(JSON.stringify({ error: msg }), { status: st, ... })
ErrorResponse(st, msg) ==
    [NoResponse EXCEPT !.status = st, !.keys = {"error"}, !.error = msg]

PleaseProvideText == "Please provide text to analyze"
NotConfigured == "AI service is not configured"
\* error.message of the SyntaxError of req.json() / JSON body
BodySyntaxError == "Unexpected token in JSON"
\* error.message of the TypeError of destructuring null
DestructureTypeError == "Cannot destructure property 'text' of null"
\* error.message of the TypeError of reading a property of null
NullPropertyTypeError == "Cannot read properties of null (reading 'verdict')"
\* error.message of a rejected fetch or a rejected res.json()
FetchFailed == "error sending request"

RateLimitMsg == "Rate limit exceeded. Please try again later."
QuotaMsg == "AI service quota exceeded. Please try again later."
FailedMsg == "Failed to analyze content"
InvalidAIMsg == "Invalid AI response"

---------------------------------------------------------------------------
(* Model output: tokens, fences, JSON.parse                                *)

FENCE == "<fence>"   \* three backquotes
LANG  == "json"      \* the language tag of a fence
WS    == " "         \* white space, a newline included
PROSE == "prose"     \* text that is no JSON
JSON  == "{json}"    \* one complete JSON text, its value given beside the tokens

RECURSIVE SkipWs(_)
SkipWs(toks) == IF toks # << >> /\ Head(toks) = WS THEN SkipWs(Tail(toks)) ELSE toks

SkipLang(toks) == IF toks # << >> /\ Head(toks) = LANG THEN Tail(toks) ELSE toks

FenceAt(toks) == {i \in 1..Len(toks) : toks[i] = FENCE}

Least(S) == CHOOSE x \in S : \A y \in S : x <= y

\* content.match(/FENCE(?:json)?\s*([\s\S]*?)FENCE/) || [null, content], then [1]
FencedGroup(toks) ==
    IF Cardinality(FenceAt(toks)) < 2
    THEN toks
    ELSE LET open  == Least(FenceAt(toks))
             close == Least({j \in FenceAt(toks) : j > open})
         IN  SkipWs(SkipLang(SubSeq(toks, open + 1, close - 1)))

\* content.replace(/FENCE(?:json)?\s*/g, "").replace(/FENCE/g, "")
RECURSIVE StripFences(_)
StripFences(toks) ==
    IF toks = << >> THEN << >>
    ELSE IF Head(toks) = FENCE THEN StripFences(SkipWs(SkipLang(Tail(toks))))
    ELSE << Head(toks) >> \o StripFences(Tail(toks))

\* JSON.parse(str): the text parses iff it is one JSON text, white space around
\* it allowed (the callers trim first); anything else throws a SyntaxError
JSONParses(toks) == Trim(toks) = << JSON >>

\* the candidate the handlers use when JSON.parse throws
DefaultAnalysis(explanation) ==
    [t |-> "object", verdict |-> Str("uncertain"), confidence |-> Num(50, 0),
     explanation |-> Str(explanation), redFlags |-> Arr(<< >>)]

UnableToAnalyze == "Unable to fully analyze this content. Please try again."
UnableToParse == "Unable to fully parse analysis. Please try again."
ParseErrorMsg == "Parse error."

\* a parse whose failure is not caught: the candidate is used as if it had parsed
ParseFencedUnguarded(c, explanation) == c.json

\* "Parse JSON safely" of the decision+search and the grounded handler
ParseFenced(c, explanation) ==
    IF JSONParses(Trim(FencedGroup(c.tokens))) THEN c.json ELSE DefaultAnalysis(explanation)

\* "Parse the JSON response" of the tool-calling handler
ParseStripped(c, explanation) ==
    IF JSONParses(Trim(StripFences(c.tokens))) THEN c.json ELSE DefaultAnalysis(explanation)

---------------------------------------------------------------------------
(* Sanitizing the candidate                                                *)

\* analysis.verdict etc. throw a TypeError when analysis is null
PropertyAccessThrows(a) == a.t \in {"null", "undefined"}

\* a sanitizer that lets every string through
SanitizeVerdictAnyString(v) == IF v.t = "string" THEN v.s ELSE "uncertain"

\* ["real", "fake", "uncertain"].includes(v) ? v : "uncertain"
SanitizeVerdict(v) ==
    IF v.t = "string" /\ v.s \in {"real", "fake", "uncertain"} THEN v.s ELSE "uncertain"

\* a sanitizer that clamps but does not round
SanitizeConfidenceUnrounded(c) ==
    IF c.t = "number" THEN MathMin(Num(100, 0), MathMax(Num(0, 0), c)) ELSE Num(50, 0)

\* typeof c === "number" ? Math.min(100, Math.max(0, Math.round(c))) : 50
SanitizeConfidence(c) ==
    IF c.t = "number"
    THEN MathMin(Num(100, 0), MathMax(Num(0, 0), MathRound(c)))
    ELSE Num(50, 0)

AnalysisComplete == "Analysis complete."

\* typeof e === "string" ? e : "Analysis complete."
SanitizeExplanation(e) == IF e.t = "string" THEN e.s ELSE AnalysisComplete

RECURSIVE FilterStrings(_)
FilterStrings(items) ==
    IF items = << >> THEN << >>
    ELSE (IF Head(items).t = "string" THEN << Head(items).s >> ELSE << >>)
         \o FilterStrings(Tail(items))

\* Array.isArray(f) ? f.filter(x => typeof x === "string") : []
SanitizeRedFlags(f) == IF f.t = "array" THEN FilterStrings(f.items) ELSE << >>

\* the success response built from the candidate; keys are the fields of the body
VerdictResponse(a, keys, mode, srcs) ==
    [status |-> 200, keys |-> keys, error |-> "",
     verdict |-> SanitizeVerdict(a.verdict),
     confidence |-> SanitizeConfidence(a.confidence),
     explanation |-> SanitizeExplanation(a.explanation),
     redFlags |-> SanitizeRedFlags(a.redFlags),
     sourceMode |-> mode, sources |-> srcs]

\* the response of a handler whose candidate is a: the catch block answers 500
\* with the TypeError's message when a property of the candidate cannot be read
Respond(a, keys, mode, srcs) ==
    IF PropertyAccessThrows(a)
    THEN ErrorResponse(500, NullPropertyTypeError)
    ELSE VerdictResponse(a, keys, mode, srcs)

WithSourceMode == {"verdict", "confidence", "explanation", "redFlags", "sourceMode", "sources"}
WithoutSourceMode == {"verdict", "confidence", "explanation", "redFlags", "sources"}

---------------------------------------------------------------------------
(* Replies of the language-model gateway                                   *)

WellFormed ==
    [t |-> "object", verdict |-> Str("fake"), confidence |-> Num(87, 0),
     explanation |-> Str("why"), redFlags |-> Arr(<< Str("clickbait") >>)]

NonObject(t) ==
    [t |-> t, verdict |-> Undefined, confidence |-> Undefined,
     explanation |-> Undefined, redFlags |-> Undefined]

VerdictValues ==
    { Str("real"), Str("fake"), Str("uncertain"), Str("maybe"), Str("REAL"),
      Num(42, 0), Undefined }

ConfidenceValues ==
    { Undefined, Null, Str("85"),
      Num(-3, 0), Num(-1, 5), Num(-1, 6), Num(0, 0), Num(49, 5), Num(72, 4),
      Num(99, 5), Num(100, 0), Num(100, 4), Num(250, 0) }

ExplanationValues == { Undefined, Str(""), Str("why"), Num(7, 0) }

RedFlagsValues ==
    { Undefined, Str("clickbait"), Arr(<< >>),
      Arr(<< Str("a"), Num(1, 0), Str("b") >>), Arr(<< Null >>) }

\* what JSON.parse can yield: objects (each field is sanitized on its own, so
\* the objects vary one field of a well-formed candidate, plus {}), and the
\* values that are no objects
Candidates ==
    {[WellFormed EXCEPT !.verdict = v] : v \in VerdictValues}
    \cup {[WellFormed EXCEPT !.confidence = c] : c \in ConfidenceValues}
    \cup {[WellFormed EXCEPT !.explanation = e] : e \in ExplanationValues}
    \cup {[WellFormed EXCEPT !.redFlags = f] : f \in RedFlagsValues}
    \cup {NonObject("object")}
    \cup {NonObject(t) : t \in {"null", "number", "string", "array", "boolean"}}

\* contents whose JSON text some handler parses
JsonContents ==
    { << JSON >>,
      << FENCE, LANG, WS, JSON, WS, FENCE >>,
      << PROSE, WS, FENCE, WS, JSON, FENCE >> }

\* contents no handler parses
OtherContents ==
    { << PROSE >>, << PROSE, WS, JSON >>, << FENCE, LANG, WS, PROSE, WS, FENCE >>,
      << FENCE, LANG, WS, JSON >>, << FENCE, FENCE >> }

\* the contents of the verdict call's reply: every candidate as plain JSON, the
\* null and the well-formed candidate in the fenced forms, and the contents
\* that hold no JSON a handler parses
Contents ==
    {[tokens |-> << JSON >>, json |-> c] : c \in Candidates}
    \cup {[tokens |-> t, json |-> c] : t \in JsonContents, c \in {WellFormed, NonObject("null")}}
    \cup {[tokens |-> t, json |-> WellFormed] : t \in OtherContents}

NoContent == [tokens |-> << >>, json |-> NonObject("undefined")]

\* what a fetch of the gateway can bring: the fetch (or res.json()) rejects,
\* a status that is not ok, or status 200 with a body whose content is c
Rejected == [status |-> 0, content |-> NoContent]
NotOk(st) == [status |-> st, content |-> NoContent]
Ok(c) == [status |-> 200, content |-> c]

GatewayReplies(contents) ==
    {Rejected} \cup {NotOk(st) : st \in {402, 429, 500}}
    \cup {Ok(c) : c \in contents \cup {NoContent}}

\* what replies records of a reply
Answer(reply) == [status |-> reply.status, content |-> reply.content.tokens # << >>]

\* a client that does not tell the rate limit from other failures
callGeminiUnclassified(reply) ==
    IF reply.status # 200 THEN [error |-> FailedMsg, content |-> NoContent]
    ELSE IF reply.content.tokens = << >> THEN [error |-> InvalidAIMsg, content |-> NoContent]
    ELSE [error |-> "", content |-> reply.content]

\* callGemini, lines 76-98 (part_002 lines 43-58): { error } or { content }
callGemini(reply) ==
    IF reply.status # 200
    THEN [error |-> IF reply.status = 429 THEN RateLimitMsg
                    ELSE IF reply.status = 402 THEN QuotaMsg
                    ELSE FailedMsg,
          content |-> NoContent]
    ELSE IF reply.content.tokens = << >>
    THEN [error |-> InvalidAIMsg, content |-> NoContent]
    ELSE [error |-> "", content |-> reply.content]

LIVE_SEARCH_REQUIRED == "LIVE_SEARCH_REQUIRED"
STATIC_ANALYSIS_OK == "STATIC_ANALYSIS_OK"

DecisionContents ==
    {[tokens |-> t, json |-> WellFormed] :
        t \in { << LIVE_SEARCH_REQUIRED >>, << STATIC_ANALYSIS_OK >>,
                << PROSE, WS, LIVE_SEARCH_REQUIRED >>, << PROSE >> }}

\* decisionRaw.includes("LIVE_SEARCH_REQUIRED")
Includes(toks, tok) == \E i \in 1..Len(toks) : toks[i] = tok

---------------------------------------------------------------------------
(* Search results                                                          *)

Url(i) == "u" \o ToString(i)

\* n organic results { title, link, snippet } with the links Url(off+1) ...;
\* tag tells the results of one query from those of another
Organic(off, n, tag) ==
    [i \in 1..n |-> [title |-> tag, link |-> Url(off + i), snippet |-> "about " \o tag]]

\* results that lack title, link and snippet, or the link only
Linkless(tag) ==
    << [title |-> "", link |-> "", snippet |-> ""],
       [title |-> tag, link |-> "", snippet |-> "about " \o tag] >>

\* the organic_results a query may bring: none, more than the code keeps
\* (from three overlapping ranges of links), and results without a link
OrganicResults(tag) ==
    {Organic(off, n, tag) : off \in {0, 3, 5}, n \in {0, MaxOrganic}}
    \cup {Linkless(tag)}

\* what the fetch of SerpAPI can bring: status 0 is a rejected fetch or res.json()
SerpReplies(tag) ==
    {[status |-> st, organic |-> << >>] : st \in {0, 500}}
    \cup {[status |-> 200, organic |-> o] : o \in OrganicResults(tag)}

OrDefault(str, default) == IF str = "" THEN default ELSE str

\* runLiveSearch lines 130-137: the numbered snippet of result r at rank i
RenderSnippet(r, i) ==
    ToString(i) \o ". " \o OrDefault(r.title, "Untitled") \o "\n" \o r.snippet \o "\n" \o r.link

\* runLiveSearch lines 105-113 (part_002 lines 102-106): without SERPAPI_KEY it
\* returns its error before any fetch
SearchConfigured == env.SERPAPI_KEY

\* runLiveSearch (lines 104-145, part_002 lines 101-124) once its fetch has
\* answered with a status; snippets holds the entries that join("\n\n") joins
runLiveSearch(reply) ==
    IF reply.status # 200
    THEN [snippets |-> << >>, sources |-> << >>, error |-> "Live search failed."]
    ELSE LET top == Take(reply.organic, TopResults)
         IN  [snippets |-> [i \in 1..Len(top) |-> RenderSnippet(top[i], i)],
              sources |-> [i \in 1..Len(top) |-> [title |-> top[i].title, link |-> top[i].link]],
              error |-> ""]

---------------------------------------------------------------------------
(* The serve handlers                                                      *)

Handlers == {"decision_search", "tool_calling", "grounded"}

StaticPrompt == [evidence |-> << >>]

Init ==
    /\ handler \in Handlers
    /\ env \in [LOVABLE_API_KEY : BOOLEAN, SERPAPI_KEY : BOOLEAN]
    /\ req \in Requests
    /\ pc = "start"
    /\ calls = << >>
    /\ replies = << >>
    /\ needsLiveSearch = FALSE
    /\ searchQueries = << >>
    /\ queryIndex = 0
    /\ allSources = << >>
    /\ allSnippets = << >>
    /\ seen = << >>
    /\ webSnippets = << >>
    /\ sources = << >>
    /\ sourceMode = ""
    /\ analysisUser = StaticPrompt
    /\ content = NoContent
    /\ analysis = NonObject("undefined")
    /\ response = NoResponse

\* return new Response(...): the handler is done
Return(r) == response' = r /\ pc' = "done"

\* the handler issues an outbound call and awaits it at position p
Await(call, p) == calls' = Append(calls, call) /\ pc' = p /\ UNCHANGED response

\* the locals of the evidence stage
evidenceVars ==
    << searchQueries, queryIndex, allSources, allSnippets, seen, webSnippets, sources >>

\* a serve that reads the credential before it validates the text
ServeKeyFirst ==
    /\ pc = "start"
    /\ UNCHANGED << handler, env, req, replies, needsLiveSearch, evidenceVars,
                    sourceMode, analysisUser, content, analysis >>
    /\ IF req.method = "OPTIONS"
       THEN Return(Preflight) /\ UNCHANGED calls
       ELSE IF req.json = "invalid"
       THEN Return(ErrorResponse(500, BodySyntaxError)) /\ UNCHANGED calls
       ELSE IF req.json = "null"
       THEN Return(ErrorResponse(500, DestructureTypeError)) /\ UNCHANGED calls
       ELSE IF ~env.LOVABLE_API_KEY
       THEN Return(ErrorResponse(500, NotConfigured)) /\ UNCHANGED calls
       ELSE IF InvalidText(req.text)
       THEN Return(ErrorResponse(400, PleaseProvideText)) /\ UNCHANGED calls
       ELSE IF handler = "tool_calling"
       THEN Await("llm:tool_call", "tool_call")
       ELSE Await("llm:decision", "decision")

\* serve, up to the first outbound call (lines 150-204 and 590-612 of
\* TechnologyImpact.tsx, lines 129-161 of part_002): the same code in the three
Serve ==
    /\ pc = "start"
    /\ UNCHANGED << handler, env, req, replies, needsLiveSearch, evidenceVars,
                    sourceMode, analysisUser, content, analysis >>
    /\ IF req.method = "OPTIONS"
       THEN Return(Preflight) /\ UNCHANGED calls
       ELSE IF req.json = "invalid"
       THEN Return(ErrorResponse(500, BodySyntaxError)) /\ UNCHANGED calls
       ELSE IF req.json = "null"
       THEN Return(ErrorResponse(500, DestructureTypeError)) /\ UNCHANGED calls
       ELSE IF InvalidText(req.text)
       THEN Return(ErrorResponse(400, PleaseProvideText)) /\ UNCHANGED calls
       ELSE IF ~env.LOVABLE_API_KEY
       THEN Return(ErrorResponse(500, NotConfigured)) /\ UNCHANGED calls
       ELSE IF handler = "tool_calling"
       THEN Await("llm:tool_call", "tool_call")
       ELSE Await("llm:decision", "decision")

\* the catch block: 500 with the message of the error thrown
Catch(msg) == Return(ErrorResponse(500, msg))

\* analysisUser, lines 258-260
AnalysisUser(needs, snippets) ==
    IF needs /\ snippets # << >> THEN [evidence |-> snippets] ELSE StaticPrompt

\* a decision step that issues the analysis call without waiting for the search
DecisionSearchDecisionEager ==
    /\ pc = "decision" /\ handler = "decision_search"
    /\ \E reply \in GatewayReplies(DecisionContents) :
        /\ replies' = Append(replies, Answer(reply))
        /\ UNCHANGED << handler, env, req, evidenceVars, content, analysis >>
        /\ IF reply.status = 0
           THEN Catch(FetchFailed)
                /\ UNCHANGED << calls, needsLiveSearch, sourceMode, analysisUser >>
           ELSE IF callGemini(reply).error # ""
           THEN Return(ErrorResponse(500, callGemini(reply).error))
                /\ UNCHANGED << calls, needsLiveSearch, sourceMode, analysisUser >>
           ELSE LET needs == Includes(callGemini(reply).content.tokens, LIVE_SEARCH_REQUIRED)
                IN  /\ needsLiveSearch' = needs
                    /\ IF needs /\ SearchConfigured
                       THEN /\ sourceMode' = "live-web"
                            /\ calls' = calls \o << "llm:analysis", "serpapi" >>
                            /\ pc' = "search"
                            /\ UNCHANGED << response, analysisUser >>
                       ELSE /\ sourceMode' = "static"
                            /\ analysisUser' = AnalysisUser(needs, webSnippets)
                            /\ Await("llm:analysis", "analysis")

\* decision+search handler, lines 200-266: the decision call answers; STEP 2 up
\* to the fetch of runLiveSearch or, with no search, up to the analysis call
DecisionSearchDecision ==
    /\ pc = "decision" /\ handler = "decision_search"
    /\ \E reply \in GatewayReplies(DecisionContents) :
        /\ replies' = Append(replies, Answer(reply))
        /\ UNCHANGED << handler, env, req, evidenceVars, content, analysis >>
        /\ IF reply.status = 0
           THEN Catch(FetchFailed)
                /\ UNCHANGED << calls, needsLiveSearch, sourceMode, analysisUser >>
           ELSE IF callGemini(reply).error # ""
           THEN Return(ErrorResponse(500, callGemini(reply).error))
                /\ UNCHANGED << calls, needsLiveSearch, sourceMode, analysisUser >>
           ELSE LET needs == Includes(callGemini(reply).content.tokens, LIVE_SEARCH_REQUIRED)
                IN  /\ needsLiveSearch' = needs
                    /\ IF needs /\ SearchConfigured
                       THEN /\ sourceMode' = "live-web"
                            /\ Await("serpapi", "search")
                            /\ UNCHANGED analysisUser
                       ELSE \* no search, or runLiveSearch returns its error at once
                            /\ sourceMode' = "static"
                            /\ analysisUser' = AnalysisUser(needs, webSnippets)
                            /\ Await("llm:analysis", "analysis")

\* decision+search handler, lines 227-266: the fetch of runLiveSearch answers
DecisionSearchSearch ==
    /\ pc = "search" /\ handler = "decision_search"
    /\ \E reply \in SerpReplies("A") :
        /\ UNCHANGED << handler, env, req, replies, needsLiveSearch, searchQueries,
                        queryIndex, allSources, allSnippets, seen, content, analysis >>
        /\ IF reply.status = 0
           THEN Catch(FetchFailed)
                /\ UNCHANGED << calls, webSnippets, sources, sourceMode, analysisUser >>
           ELSE LET search == runLiveSearch(reply)
                IN  /\ IF search.error # ""
                       THEN sourceMode' = "static" /\ UNCHANGED << webSnippets, sources >>
                       ELSE /\ webSnippets' = search.snippets
                            /\ sources' = search.sources
                            /\ UNCHANGED sourceMode
                    /\ analysisUser' = AnalysisUser(needsLiveSearch, webSnippets')
                    /\ Await("llm:analysis", "analysis")

\* an analysis step that calls the model again when the call failed
DecisionSearchAnalysisRetry ==
    /\ pc = "analysis" /\ handler = "decision_search"
    /\ \E reply \in GatewayReplies(Contents) :
        /\ replies' = Append(replies, Answer(reply))
        /\ UNCHANGED << handler, env, req, needsLiveSearch, evidenceVars,
                        sourceMode, analysisUser >>
        /\ IF reply.status = 0
           THEN Catch(FetchFailed) /\ UNCHANGED << calls, content, analysis >>
           ELSE IF callGemini(reply).error # "" /\ Len(calls) < 4
           THEN Await("llm:analysis", "analysis") /\ UNCHANGED << content, analysis >>
           ELSE IF callGemini(reply).error # ""
           THEN Return(ErrorResponse(500, callGemini(reply).error))
                /\ UNCHANGED << calls, content, analysis >>
           ELSE /\ content' = callGemini(reply).content
                /\ analysis' = ParseFenced(content', UnableToAnalyze)
                /\ Return(Respond(analysis', WithSourceMode, sourceMode, sources))
                /\ UNCHANGED calls

\* decision+search handler, lines 268-324: the analysis call answers
DecisionSearchAnalysis ==
    /\ pc = "analysis" /\ handler = "decision_search"
    /\ \E reply \in GatewayReplies(Contents) :
        /\ replies' = Append(replies, Answer(reply))
        /\ UNCHANGED << handler, env, req, calls, needsLiveSearch, evidenceVars,
                        sourceMode, analysisUser >>
        /\ IF reply.status = 0
           THEN Catch(FetchFailed) /\ UNCHANGED << content, analysis >>
           ELSE IF callGemini(reply).error # ""
           THEN Return(ErrorResponse(500, callGemini(reply).error))
                /\ UNCHANGED << content, analysis >>
           ELSE /\ content' = callGemini(reply).content
                /\ analysis' = ParseFenced(content', UnableToAnalyze)
                /\ Return(Respond(analysis', WithSourceMode, sourceMode, sources))

---------------------------------------------------------------------------
(* The grounded handler (part_002)                                         *)

Chunk(title, uri) == [title |-> title, uri |-> uri]

\* the grounding_chunks the gateway may attach to a reply: none, one citation,
\* and chunks that lack the title or the uri
GroundingChunks ==
    { << >>,
      << Chunk(Str("Reuters"), Str(Url(1))) >>,
      << Chunk(Undefined, Str(Url(2))), Chunk(Str("no uri"), Undefined) >> }

\* callGemini of part_002, lines 61-80: groundedSources
RECURSIVE GroundedSources(_)
GroundedSources(chunks) ==
    IF chunks = << >> THEN << >>
    ELSE LET web == Head(chunks)
         IN  (IF ~Falsy(web.uri)
              THEN << [title |-> IF web.title.t \in {"undefined", "null"}
                                 THEN "Source" ELSE web.title.s,
                       url |-> web.uri.s] >>
              ELSE << >>)
             \o GroundedSources(Tail(chunks))

\* replies to the grounded call: those of the gateway, with or without citations
GroundedReplies ==
    {[status |-> r.status, content |-> r.content, chunks |-> g] :
        r \in GatewayReplies(Contents), g \in GroundingChunks}

\* grounded handler, lines 157-194: the decision call answers
GroundedDecision ==
    /\ pc = "decision" /\ handler = "grounded"
    /\ \E reply \in GatewayReplies(DecisionContents) :
        /\ replies' = Append(replies, Answer(reply))
        /\ UNCHANGED << handler, env, req, evidenceVars, sourceMode, content, analysis >>
        /\ IF reply.status = 0
           THEN Catch(FetchFailed) /\ UNCHANGED << calls, needsLiveSearch, analysisUser >>
           ELSE IF callGemini(reply).error # ""
           THEN Return(ErrorResponse(500, callGemini(reply).error))
                /\ UNCHANGED << calls, needsLiveSearch, analysisUser >>
           ELSE /\ needsLiveSearch' =
                       Includes(callGemini(reply).content.tokens, LIVE_SEARCH_REQUIRED)
                /\ analysisUser' = StaticPrompt
                /\ Await("llm:grounded", "grounded")

\* user of fallbackAnalysis, lines 271-273
FallbackUser(snippets) == IF snippets # << >> THEN [evidence |-> snippets] ELSE StaticPrompt

\* sources.map(s => ({ title: s.title, url: s.link })), line 298
FallbackSources(srcs) == [i \in 1..Len(srcs) |-> [title |-> srcs[i].title, url |-> srcs[i].link]]

\* grounded handler, lines 196-239, and fallbackAnalysis up to its first
\* outbound call (lines 252-275): the grounded call answers
GroundedGrounded ==
    /\ pc = "grounded" /\ handler = "grounded"
    /\ \E reply \in GroundedReplies :
        /\ replies' = Append(replies, Answer(reply))
        /\ UNCHANGED << handler, env, req, needsLiveSearch, evidenceVars >>
        /\ IF reply.status = 0
           THEN Catch(FetchFailed)
                /\ UNCHANGED << calls, sourceMode, analysisUser, content, analysis >>
           ELSE IF callGemini(reply).error # ""
           THEN \* return await fallbackAnalysis(...)
                /\ sourceMode' = "static"
                /\ UNCHANGED << content, analysis >>
                /\ IF needsLiveSearch /\ SearchConfigured
                   THEN Await("serpapi", "fallback_search") /\ UNCHANGED analysisUser
                   ELSE /\ analysisUser' = FallbackUser(webSnippets)
                        /\ Await("llm:fallback", "fallback")
           ELSE LET groundedSources == GroundedSources(reply.chunks)
                IN  /\ content' = callGemini(reply).content
                    /\ analysis' = ParseFenced(content', UnableToAnalyze)
                    /\ Return(Respond(analysis', WithSourceMode,
                                      IF Len(groundedSources) > 0 THEN "grounded" ELSE "static",
                                      groundedSources))
                    /\ UNCHANGED << calls, sourceMode, analysisUser >>

\* a fallback search that keeps the sources but does not set the mode
FallbackSearchModeless ==
    /\ pc = "fallback_search" /\ handler = "grounded"
    /\ \E reply \in SerpReplies("A") :
        /\ UNCHANGED << handler, env, req, replies, needsLiveSearch, searchQueries,
                        queryIndex, allSources, allSnippets, seen, content, analysis >>
        /\ IF reply.status = 0
           THEN Catch(FetchFailed)
                /\ UNCHANGED << calls, webSnippets, sources, sourceMode, analysisUser >>
           ELSE LET search == runLiveSearch(reply)
                IN  /\ IF search.error = ""
                       THEN /\ webSnippets' = search.snippets
                            /\ sources' = search.sources
                            /\ UNCHANGED sourceMode
                       ELSE UNCHANGED << sourceMode, webSnippets, sources >>
                    /\ analysisUser' = FallbackUser(webSnippets')
                    /\ Await("llm:fallback", "fallback")

\* fallbackAnalysis, lines 258-275: the fetch of runLiveSearch answers
FallbackSearch ==
    /\ pc = "fallback_search" /\ handler = "grounded"
    /\ \E reply \in SerpReplies("A") :
        /\ UNCHANGED << handler, env, req, replies, needsLiveSearch, searchQueries,
                        queryIndex, allSources, allSnippets, seen, content, analysis >>
        /\ IF reply.status = 0
           THEN Catch(FetchFailed)
                /\ UNCHANGED << calls, webSnippets, sources, sourceMode, analysisUser >>
           ELSE LET search == runLiveSearch(reply)
                IN  /\ IF search.error = ""
                       THEN /\ sourceMode' = "live-web"
                            /\ webSnippets' = search.snippets
                            /\ sources' = search.sources
                       ELSE UNCHANGED << sourceMode, webSnippets, sources >>
                    /\ analysisUser' = FallbackUser(webSnippets')
                    /\ Await("llm:fallback", "fallback")

\* fallbackAnalysis, lines 277-299: its callGemini answers
FallbackAnalysis ==
    /\ pc = "fallback" /\ handler = "grounded"
    /\ \E reply \in GatewayReplies(Contents) :
        /\ replies' = Append(replies, Answer(reply))
        /\ UNCHANGED << handler, env, req, calls, needsLiveSearch, evidenceVars,
                        sourceMode, analysisUser >>
        /\ IF reply.status = 0
           THEN Catch(FetchFailed) /\ UNCHANGED << content, analysis >>
           ELSE IF callGemini(reply).error # ""
           THEN Return(ErrorResponse(500, callGemini(reply).error))
                /\ UNCHANGED << content, analysis >>
           ELSE /\ content' = callGemini(reply).content
                /\ analysis' = ParseFenced(content', ParseErrorMsg)
                /\ Return(Respond(analysis', WithSourceMode, sourceMode,
                                  FallbackSources(sources)))

---------------------------------------------------------------------------
(* The tool-calling handler (TechnologyImpact.tsx lines 340-660)           *)

\* the tool calls of the first reply: arguments that are a JSON string or an
\* object holding a query, a string that is no JSON, arguments without query
ToolCallKinds == {"string", "object", "bad-json", "no-query"}

ToolCallLists == UNION {[1..n -> ToolCallKinds] : n \in 0..MaxToolCalls}

ToolCallQuery == << "q" >>

\* lines 411-425: the queries of the tool calls, or the claim's prefix
RECURSIVE QueriesOf(_)
QueriesOf(toolCalls) ==
    IF toolCalls = << >> THEN << >>
    ELSE (IF Head(toolCalls) \in {"string", "object"} THEN << ToolCallQuery >> ELSE << >>)
         \o QueriesOf(Tail(toolCalls))

SearchQueries(toolCalls, input) ==
    IF QueriesOf(toolCalls) = << >> THEN << Take(input, QueryPrefix) >> ELSE QueriesOf(toolCalls)

\* the error callGeminiWithSearch returns when its first call is not ok, lines 399-405
FirstCallError(status) ==
    IF status = 429 THEN RateLimitMsg ELSE IF status = 402 THEN QuotaMsg ELSE FailedMsg

\* performWebSearch lines 503-507: SerpAPI results as sources
SerpSources(organic) ==
    [i \in 1..Len(organic) |->
        [title |-> OrDefault(organic[i].title, "Untitled"),
         url |-> organic[i].link,
         snippet |-> organic[i].snippet]]

\* performWebSearch lines 573-577: the parsed array as sources
ParsedSources(parsed) ==
    [i \in 1..Len(parsed) |->
        [title |-> OrDefault(parsed[i].title, "Source"),
         url |-> parsed[i].link,
         snippet |-> parsed[i].snippet]]

\* performWebSearch lines 551-565: the grounding chunks as sources
RECURSIVE ChunkSources(_)
ChunkSources(chunks) ==
    IF chunks = << >> THEN << >>
    ELSE LET web == Head(chunks)
         IN  (IF ~Falsy(web.uri)
              THEN << [title |-> IF web.title.t \in {"undefined", "null"}
                                 THEN "Source" ELSE web.title.s,
                       url |-> web.uri.s,
                       snippet |-> ""] >>
              ELSE << >>)
             \o ChunkSources(Tail(chunks))

\* replies of the gateway to the search request of performWebSearch: a failure,
\* citations, a JSON array in the content, or neither
GeminiSearchReplies(tag) ==
    {[status |-> st, chunks |-> << >>, array |-> FALSE, parsed |-> << >>] : st \in {0, 500, 200}}
    \cup {[status |-> 200, chunks |-> g, array |-> FALSE, parsed |-> << >>] :
              g \in GroundingChunks \ {<< >>}}
    \cup {[status |-> 200, chunks |-> << >>, array |-> TRUE, parsed |-> Organic(5, MaxOrganic, tag)]}

\* performWebSearch lines 515-586: the fallback that asks the gateway to search
GeminiSearch(reply) ==
    IF reply.status # 200 THEN << >>
    ELSE IF Len(ChunkSources(reply.chunks)) > 0 THEN Take(ChunkSources(reply.chunks), TopResults)
    ELSE IF reply.array THEN ParsedSources(Take(reply.parsed, TopResults))
    ELSE << >>

\* performWebSearch: the sources it returns and the outbound calls it makes,
\* given what SerpAPI and the gateway answer
performWebSearch(serp, gemini) ==
    IF env.SERPAPI_KEY /\ serp.status = 200
    THEN [results |-> SerpSources(Take(serp.organic, TopResults)), calls |-> << "serpapi" >>]
    ELSE [results |-> IF env.LOVABLE_API_KEY THEN GeminiSearch(gemini) ELSE << >>,
          calls |-> (IF env.SERPAPI_KEY THEN << "serpapi" >> ELSE << >>)
                    \o (IF env.LOVABLE_API_KEY THEN << "llm:search" >> ELSE << >>)]

\* a merge that pushes every record
MergeAll(held, results) == held \o results

\* lines 435-440: the records of results whose url is not held yet are pushed
RECURSIVE Merge(_, _)
Merge(held, results) ==
    IF results = << >> THEN held
    ELSE LET r == Head(results)
         IN  IF \E i \in 1..Len(held) : held[i].url = r.url
             THEN Merge(held, Tail(results))
             ELSE Merge(Append(held, r), Tail(results))

\* line 438: the evidence line of a source
SnippetLine(r) == "- " \o r.title \o ": " \o r.snippet \o " (" \o r.url \o ")"

SnippetLines(srcs) == [i \in 1..Len(srcs) |-> SnippetLine(srcs[i])]

Min(a, b) == IF a < b THEN a ELSE b

\* the merged list handed on without the cap
TopSourcesUncapped(all) == all

\* line 443: allSources.slice(0, 8)
TopSources(all) == Take(all, EvidenceCap)

\* line 444: allSnippets.slice(0, 8), the lines that join("\n") joins
EvidenceText(lines) == Take(lines, EvidenceCap)

QueryTags == << "first", "second", "third" >>

\* callGeminiWithSearch lines 399-427: its first call answers
ToolCallingFirst ==
    /\ pc = "tool_call" /\ handler = "tool_calling"
    /\ \E status \in {0, 402, 429, 500, 200}, toolCalls \in ToolCallLists :
        /\ status # 200 => toolCalls = << >>
        /\ replies' = Append(replies, [status |-> status, content |-> FALSE])
        /\ UNCHANGED << handler, env, req, calls, needsLiveSearch, queryIndex, allSources,
                        allSnippets, seen, webSnippets, sources, sourceMode, analysisUser,
                        content, analysis >>
        /\ IF status = 0
           THEN Catch(FetchFailed) /\ UNCHANGED searchQueries
           ELSE IF status # 200
           THEN Return(ErrorResponse(500, FirstCallError(status))) /\ UNCHANGED searchQueries
           ELSE /\ searchQueries' = SearchQueries(toolCalls, userInput)
                /\ pc' = "web_search"
                /\ UNCHANGED response

\* callGeminiWithSearch lines 433-476: one turn of the loop over the queries,
\* performWebSearch included; after the last turn, up to the analysis call
ToolCallingSearch ==
    /\ pc = "web_search" /\ handler = "tool_calling"
    /\ queryIndex < Min(Len(searchQueries), MaxExecutedQueries)
    /\ \E serp \in SerpReplies(QueryTags[queryIndex + 1]),
          gemini \in GeminiSearchReplies(QueryTags[queryIndex + 1]) :
        LET search == performWebSearch(serp, gemini)
            last == queryIndex + 1 = Min(Len(searchQueries), MaxExecutedQueries)
        IN  /\ "llm:search" \notin {search.calls[i] : i \in 1..Len(search.calls)}
                   => gemini = [status |-> 0, chunks |-> << >>, array |-> FALSE, parsed |-> << >>]
            /\ ~env.SERPAPI_KEY => serp = [status |-> 0, organic |-> << >>]
            /\ queryIndex' = queryIndex + 1
            /\ allSources' = Merge(allSources, search.results)
            /\ seen' = seen \o search.results
            /\ allSnippets' = SnippetLines(allSources')
            /\ UNCHANGED << handler, env, req, replies, needsLiveSearch, searchQueries,
                            webSnippets, sourceMode, content, analysis, response >>
            /\ IF last
               THEN /\ sources' = TopSources(allSources')
                    /\ analysisUser' = [evidence |-> EvidenceText(allSnippets')]
                    /\ calls' = calls \o search.calls \o << "llm:analysis" >>
                    /\ pc' = "analysis"
               ELSE /\ calls' = calls \o search.calls
                    /\ UNCHANGED << sources, analysisUser, pc >>

\* callGeminiWithSearch lines 478-489 and the handler's lines 614-652: the
\* analysis call answers
ToolCallingAnalysis ==
    /\ pc = "analysis" /\ handler = "tool_calling"
    /\ \E reply \in GatewayReplies(Contents) :
        /\ replies' = Append(replies, Answer(reply))
        /\ UNCHANGED << handler, env, req, calls, needsLiveSearch, evidenceVars,
                        sourceMode, analysisUser >>
        /\ IF reply.status = 0
           THEN Catch(FetchFailed) /\ UNCHANGED << content, analysis >>
           ELSE IF reply.status # 200
           THEN Return(ErrorResponse(500, FailedMsg)) /\ UNCHANGED << content, analysis >>
           ELSE IF reply.content.tokens = << >>
           THEN Return(ErrorResponse(500, InvalidAIMsg)) /\ UNCHANGED << content, analysis >>
           ELSE /\ content' = reply.content
                /\ analysis' = ParseStripped(content', UnableToParse)
                /\ Return(Respond(analysis', WithoutSourceMode, sourceMode, sources))

Next ==
    \/ Serve
    \/ DecisionSearchDecision
    \/ DecisionSearchSearch
    \/ DecisionSearchAnalysis
    \/ GroundedDecision
    \/ GroundedGrounded
    \/ FallbackSearch
    \/ FallbackAnalysis
    \/ ToolCallingFirst
    \/ ToolCallingSearch
    \/ ToolCallingAnalysis

Spec == Init /\ [][Next]_vars

---------------------------------------------------------------------------
(* Properties                                                              *)

Done == pc = "done"

\* the response is a verdict (HTTP 200 with the verdict fields)
Success == response.status = 200 /\ "verdict" \in response.keys

Count(seq, S) == Cardinality({i \in 1..Len(seq) : seq[i] \in S})

LlmCalls == {"llm:decision", "llm:tool_call", "llm:search", "llm:analysis",
             "llm:grounded", "llm:fallback"}
VerdictCalls == {"llm:analysis", "llm:grounded", "llm:fallback"}

\* text is missing, no string, or made of white space only
MissingOrBlank(text) ==
    text.t # "string" \/ \A i \in 1..Len(text.items) : text.items[i] = " "

\* C1: a POST whose JSON body has a text that is missing, not a string or blank
\* after trimming is answered with HTTP 400 and the body
\* {error: "Please provide text to analyze"}, and no language-model or search
\* call is ever issued for it.
C1_InvalidTextRejected ==
    (req.method = "POST" /\ req.json = "object" /\ MissingOrBlank(req.text))
        => /\ calls = << >>
           /\ pc \in {"start", "done"}
           /\ Done => /\ response.status = 400
                      /\ response.keys = {"error"}
                      /\ response.error = "Please provide text to analyze"

C1_Witness ==
    /\ Done /\ req.method = "POST" /\ req.json = "object"
    /\ req.text = Text(<< " ", " " >>)
    /\ response.status = 400 /\ calls = << >>

\* C2: in every success response verdict is one of real, fake, uncertain: a
\* candidate verdict that is one of the three is passed through unchanged, any
\* other candidate value (another string, a number, absent) becomes uncertain.
C2_VerdictSanitized ==
    Success =>
        /\ response.verdict \in {"real", "fake", "uncertain"}
        /\ (analysis.verdict.t = "string" /\ analysis.verdict.s \in {"real", "fake", "uncertain"})
               => response.verdict = analysis.verdict.s
        /\ ~(analysis.verdict.t = "string" /\ analysis.verdict.s \in {"real", "fake", "uncertain"})
               => response.verdict = "uncertain"

C2_Witness ==
    /\ Success /\ content.tokens = << JSON >>
    /\ analysis.verdict = Str("maybe") /\ response.verdict = "uncertain"

\* the integer nearest to the number c, ties toward the larger one
NearestInt(c) ==
    CHOOSE k \in (c.n)..(c.n + 1) : (10 * k - (10 * c.n + c.frac)) \in -4..5

Clamp(k) == IF k < 0 THEN 0 ELSE IF k > 100 THEN 100 ELSE k

\* C3: in every success response confidence is an integer in [0,100]: a numeric
\* candidate is rounded and clamped to [0,100], any other candidate becomes 50,
\* and clamping the sanitized confidence again returns it unchanged.
C3_ConfidenceSanitized ==
    Success =>
        /\ response.confidence.t = "number"
        /\ response.confidence.frac = 0
        /\ response.confidence.n \in 0..100
        /\ analysis.confidence.t = "number"
               => response.confidence.n = Clamp(NearestInt(analysis.confidence))
        /\ analysis.confidence.t # "number" => response.confidence.n = 50
        /\ SanitizeConfidence(response.confidence) = response.confidence

C3_Witness ==
    /\ Success /\ content.tokens = << JSON >>
    /\ analysis.confidence = Num(99, 5) /\ response.confidence = Num(100, 0)

\* the content is one JSON text, bare or with fence marks around it (a fence
\* left open included)
PlainJSON(toks) == SelectSeq(toks, LAMBDA t : t \notin {WS, FENCE, LANG}) = << JSON >>

\* the content holds a JSON text between two fences
ContainsFencedJSON(toks) ==
    \E i, j, k \in 1..Len(toks) :
        i < j /\ j < k /\ toks[i] = FENCE /\ toks[j] = JSON /\ toks[k] = FENCE

\* C4: when the verdict call succeeds and its content is neither JSON nor
\* fenced JSON, the request does not fail: the response is a success with
\* verdict uncertain, confidence 50 and no red flags.
C4_MalformedOutputDefaults ==
    (content # NoContent /\ ~PlainJSON(content.tokens) /\ ~ContainsFencedJSON(content.tokens))
        => /\ Done /\ Success
           /\ response.verdict = "uncertain"
           /\ response.confidence = Num(50, 0)
           /\ response.redFlags = << >>

C4_Witness ==
    /\ Done /\ Success /\ content.tokens = << PROSE, WS, JSON >>
    /\ response.verdict = "uncertain" /\ response.confidence = Num(50, 0)

\* C5: sanitization is total: for every value that parsing the model output
\* can yield (an object with any fields, null, a number, a string, an array),
\* the handler answers with a success response, never with an error caused
\* by the shape of the candidate.
C5_SanitizeTotal == (Done /\ content # NoContent) => Success

\* C6: when the decision call is answered with HTTP 429, the request ends with
\* HTTP 500 carrying the rate-limit message, and no search call and no verdict
\* call is issued afterwards.
C6_DecisionRateLimited ==
    (Len(replies) >= 1 /\ calls[1] = "llm:decision" /\ replies[1].status = 429)
        => /\ Done
           /\ response.status = 500
           /\ response.keys = {"error"}
           /\ response.error = "Rate limit exceeded. Please try again later."
           /\ calls = << "llm:decision" >>

C6_Witness ==
    /\ Done /\ handler = "grounded" /\ calls = << "llm:decision" >>
    /\ Len(replies) = 1 /\ replies[1].status = 429 /\ response.status = 500

\* every language-model call of the pipeline was answered with content
AllCallsSucceeded ==
    \A i \in 1..Len(replies) : replies[i].status = 200 /\ replies[i].content

\* C7 as stated: when the search credential is absent and the claim is
\* classified as requiring live evidence, the response, provided the
\* language-model calls succeed, is a success with sourceMode "static" and
\* empty sources.
C7_StaticWithoutSearchKey ==
    (Done /\ ~env.SERPAPI_KEY /\ needsLiveSearch /\ AllCallsSucceeded)
        => /\ Success
           /\ response.sourceMode = "static"
           /\ response.sources = << >>

\* C8: the merged evidence list never holds two records with the same url, and
\* the record kept for a url is the first one seen in the order the queries
\* were submitted (with its title and snippet).
C8_DedupByUrl ==
    /\ \A i, j \in 1..Len(allSources) :
           i # j => allSources[i].url # allSources[j].url
    /\ \A i \in 1..Len(allSources) :
           \E k \in 1..Len(seen) :
               /\ seen[k] = allSources[i]
               /\ \A m \in 1..(k - 1) : seen[m].url # seen[k].url
    /\ \A k \in 1..Len(seen) :
           \E i \in 1..Len(allSources) : allSources[i].url = seen[k].url

C8_Witness ==
    /\ queryIndex >= 2
    /\ \E k, m \in 1..Len(seen) :
           /\ k < m /\ seen[k].url = seen[m].url /\ seen[k].title # seen[m].title
           /\ \E i \in 1..Len(allSources) : allSources[i] = seen[k]
    /\ Len(allSources) < Len(seen)

\* C9: whatever the queries return, the evidence block of the verdict prompt
\* and the sources of the response hold at most 8 records, and they are the
\* first 8 of the merged list, in first-seen order.
C9_EvidenceCap ==
    /\ Len(analysisUser.evidence) <= 8
    /\ Len(response.sources) <= 8
    /\ (handler = "tool_calling" /\ Count(calls, {"llm:analysis"}) = 1) =>
           LET n == IF Len(allSources) < 8 THEN Len(allSources) ELSE 8
           IN  /\ Len(sources) = n
               /\ \A i \in 1..n : sources[i] = allSources[i]
               /\ Len(analysisUser.evidence) = n
               /\ \A i \in 1..n : analysisUser.evidence[i] = SnippetLine(allSources[i])
               /\ Success => response.sources = sources

C9_Witness ==
    /\ handler = "tool_calling" /\ Success
    /\ Len(allSources) > 8
    /\ Len(response.sources) = 8 /\ Len(analysisUser.evidence) = 8

\* the language-model calls of the pipeline, in order: replies[i] answers the i-th
PipelineCalls == SelectSeq(calls, LAMBDA c : c \in LlmCalls \ {"llm:search"})

\* the answer is a classified error: a status that is not ok, or no content
ClassifiedError(r) == r.status \in {402, 429, 500} \/ (r.status = 200 /\ ~r.content)

\* the message the call's own client returns for the answer r
MessageOf(call, r) ==
    IF r.status = 200 THEN "Invalid AI response"
    ELSE IF handler = "tool_calling" THEN "Failed to analyze content"
    ELSE IF r.status = 429 THEN "Rate limit exceeded. Please try again later."
    ELSE IF r.status = 402 THEN "AI service quota exceeded. Please try again later."
    ELSE "Failed to analyze content"

\* the verdict call answered by replies[i] is the last outbound call of the
\* request, which ended with HTTP 500 and that call's error message
EndsRequest(i) ==
    /\ Done
    /\ i = Len(PipelineCalls)
    /\ calls[Len(calls)] = PipelineCalls[i]
    /\ response.status = 500
    /\ response.keys = {"error"}
    /\ response.error = MessageOf(PipelineCalls[i], replies[i])

ErrorClass(r) ==
    IF r.status = 429 THEN "Rate limit exceeded. Please try again later."
    ELSE IF r.status = 402 THEN "AI service quota exceeded. Please try again later."
    ELSE IF r.status # 200 THEN "Failed to analyze content"
    ELSE "Invalid AI response"

\* the i-th language-model call of the pipeline failed: a status that is not a
\* success, or a success without content (the first call of
\* callGeminiWithSearch is asked for tool calls, not for content)
CallFailed(i) ==
    \/ replies[i].status \in {402, 429, 500}
    \/ replies[i].status = 200 /\ ~replies[i].content /\ PipelineCalls[i] # "llm:tool_call"

\* C11: every language-model call classifies its failure the same way: 429 is
\* the rate-limit error, 402 the quota error, any other status that is not a
\* success the generic failure, a success without content the malformed
\* response, and the HTTP 500 body carries the message of that class (the
\* grounded call, whose failure starts fallbackAnalysis, is left aside).
C11_UniformClassification ==
    \A i \in 1..Len(replies) :
        (CallFailed(i) /\ PipelineCalls[i] # "llm:grounded")
            => /\ Done /\ i = Len(replies)
               /\ response = ErrorResponse(500, ErrorClass(replies[i]))

\* the Decision Stage call answered and the handler read from it that no live
\* evidence is required
DecidedStatic ==
    /\ Len(replies) >= 1 /\ calls[1] = "llm:decision"
    /\ replies[1].status = 200 /\ replies[1].content
    /\ ~needsLiveSearch

SearchCalls == {"serpapi", "llm:search"}

\* C12: whenever the Decision Stage classifies the claim as not requiring live
\* evidence, no evidence search is performed and the success response has
\* sourceMode "static" and empty sources.
C12_StaticWhenNoLiveEvidence ==
    DecidedStatic
        => /\ Count(calls, SearchCalls) = 0
           /\ Success => /\ response.sourceMode = "static"
                          /\ response.sources = << >>

\* a POST whose JSON body holds a valid, non-empty text
ValidRequest ==
    /\ req.method = "POST" /\ req.json = "object"
    /\ req.text.t = "string"
    /\ \E i \in 1..Len(req.text.items) : req.text.items[i] # " "

CanonicalVerdictFields ==
    {"verdict", "confidence", "explanation", "redFlags", "sourceMode", "sources"}

\* C13: for every request with valid non-empty text, the response is exactly
\* one of: HTTP 200 with a complete CanonicalVerdict (verdict, confidence,
\* explanation, redFlags, sourceMode and sources all present), or a status
\* other than 200 whose body holds the single field error.
C13_VerdictOrError ==
    (Done /\ ValidRequest)
        => \/ response.status = 200 /\ response.keys = CanonicalVerdictFields
           \/ response.status \notin {0, 200} /\ response.keys = {"error"}

\* C14: in every success response explanation is a non-empty string, whatever
\* the candidate explanation was (a string, the empty string, no string, absent).
C14_ExplanationNonEmpty ==
    Success => response.explanation # ""

\* no evidence search is issued before the first call of the request (the
\* Decision Stage call; the tool-call request in callGeminiWithSearch) has
\* returned with success
SearchAfterDecision ==
    Count(calls, SearchCalls) > 0 => Len(replies) >= 1 /\ replies[1].status = 200

\* a search is awaited only as the last outbound call, and the response is
\* built only after the last verdict call has returned with content
SanitizeLast ==
    /\ pc \in {"search", "fallback_search"} => calls[Len(calls)] = "serpapi"
    /\ Success => /\ PipelineCalls[Len(PipelineCalls)] \in VerdictCalls
                   /\ calls[Len(calls)] = PipelineCalls[Len(PipelineCalls)]
                   /\ Len(replies) = Len(PipelineCalls)
                   /\ replies[Len(replies)].status = 200 /\ replies[Len(replies)].content

LastCallFailed ==
    /\ Len(replies) >= 1
    /\ replies[Len(replies)].status # 200 \/ ~replies[Len(replies)].content

\* C16: a failure of the evidence layer never becomes the request's error:
\* whether the search is unconfigured, answers with a status that is no success,
\* or its call or the decoding of its response fails, the handler still issues
\* the Verdict Stage call (with an empty evidence block and sourceMode static
\* when no search could be made), and the response is an error only if a
\* language-model call failed (the null candidate, which makes the sanitizer
\* throw, is left aside).
C16_EvidenceFailureAbsorbed ==
    /\ (Done /\ Count(calls, SearchCalls) > 0) => calls[Len(calls)] \in VerdictCalls
    /\ (needsLiveSearch /\ ~env.SERPAPI_KEY /\ Count(calls, {"llm:analysis", "llm:fallback"}) = 1
            /\ handler # "tool_calling")
           => /\ Count(calls, SearchCalls) = 0
              /\ analysisUser = StaticPrompt
              /\ sourceMode = "static"
    /\ (Done /\ response.status = 500 /\ calls # << >> /\ analysis.t # "null")
           => LastCallFailed

\* C17: when the language-model credential is not configured, a request with
\* valid text ends with HTTP 500 and a body {error: <message>}, and no outbound
\* language-model or search call is issued; a request with invalid text still
\* gets HTTP 400, because validation runs before the credential check.
C17_MissingCredential ==
    (~env.LOVABLE_API_KEY /\ req.method = "POST" /\ req.json = "object")
        => /\ calls = << >>
           /\ pc \in {"start", "done"}
           /\ (Done /\ ValidRequest)
                  => /\ response.status = 500
                     /\ response.keys = {"error"}
                     /\ response.error = "AI service is not configured"
           /\ (Done /\ ~ValidRequest)
                  => /\ response.status = 400
                     /\ response.keys = {"error"}
                     /\ response.error = "Please provide text to analyze"

C17_Witness ==
    /\ Done /\ ~env.LOVABLE_API_KEY /\ env.SERPAPI_KEY /\ ValidRequest
    /\ handler = "tool_calling"
    /\ response = ErrorResponse(500, "AI service is not configured")
    /\ calls = << >>

\* C18: in the handlers that report sourceMode (the decision+search handler,
\* the grounded handler and its fallbackAnalysis) every success response with
\* sourceMode "static" has empty sources: sources that are not empty come only
\* with sourceMode "live-web" or "grounded", whatever the decision, the search
\* and the verdict call brought.
C18_StaticHasNoSources ==
    (Success /\ handler \in {"decision_search", "grounded"})
        => /\ response.sourceMode \in {"static", "live-web", "grounded"}
           /\ response.sourceMode = "static" => response.sources = << >>
           /\ response.sources # << >> => response.sourceMode \in {"live-web", "grounded"}

C18_Witness ==
    /\ Success /\ handler = "decision_search" /\ needsLiveSearch
    /\ calls = << "llm:decision", "serpapi", "llm:analysis" >>
    /\ response.sourceMode = "static" /\ response.sources = << >>

====
